---------------------------- MODULE Spec2Model ----------------------------
(***************************************************************************)
(* The HllSet system of src/hllset_system.ipynb: ingest_dataset, union,    *)
(* intersection, complement, difference.                                   *)
(*                                                                         *)
(* An HllSet is a Python dict  b -> {"zeros": [...], "frequencies": [...], *)
(* "documents": [...]}.  Every bucket dict is an object with an identity:  *)
(* `heap` holds the bucket objects, a sketch maps bucket ids to addresses  *)
(* of `heap`.  Two sketches that hold the same address share the object.   *)
(***************************************************************************)
EXTENDS Integers, Sequences, FiniteSets, TLC

VARIABLES heap, sk, conf, origin, last, ntok, loop, job

vars == <<heap, sk, conf, origin, last, ntok, loop, job>>

(***************************************************************************)
(* Bounds of the model.                                                    *)
(***************************************************************************)
MaxSketches == 3    \* sketches alive in the workspace
MaxTokens == 4      \* run lengths recorded over a whole run, by ingestion or append
MaxSearchTokens == 3    \* tokens ingested over a whole run of the search
MaxJobTokens == 2       \* tokens of each operand of an operation run by workers
MaxWorkers == 2         \* workers that share the buckets of one operation

(***************************************************************************)
(* hash_function and count_trailing_zeros are not defined in the notebook. *)
(* A 64-bit hash value is the set of its one-bits (bit 0 least             *)
(* significant); hash_function is a table of sample values.                *)
(***************************************************************************)
WordBits == 64

Tokens == {"a", "b", "c"}

PValues == {1, 2}

hash_function(token) ==
    CASE token = "a" -> {63, 0}
      [] token = "b" -> {63, 8}
      [] token = "c" -> {62, 61, 1}

RECURSIVE pow2(_)
pow2(n) == IF n = 0 THEN 1 ELSE 2 * pow2(n - 1)

RECURSIVE bits_value(_)
bits_value(S) ==
    IF S = {} THEN 0
    ELSE LET i == CHOOSE x \in S : TRUE IN pow2(i) + bits_value(S \ {i})

\* hash_val >> n
shift_right(S, n) == {i - n : i \in {x \in S : x >= n}}

\* (1 << p) - 1
low_mask(p) == 0 .. (p - 1)

\* (hash_val >> (64 - p)) & ((1 << p) - 1)
bucket_of(hash_val, p) ==
    bits_value(shift_right(hash_val, WordBits - p) \cap low_mask(p))

\* the number of zero bits below the lowest one-bit (sample hashes are non-zero)
count_trailing_zeros(hash_val) ==
    CHOOSE z \in hash_val : \A y \in hash_val : z <= y

(***************************************************************************)
(* Python's set of small non-negative ints, as CPython stores it: a table  *)
(* of 8 slots, key k probed from slot k & 7, then (5i + 1 + perturb) & 7   *)
(* with perturb >>= 5.  A slot holds a key or is unused (-1).  The table   *)
(* grows at the fifth key; the run lengths of the sample hashes are three  *)
(* values, so it never does.  list(s) reads the slots in index order.      *)
(***************************************************************************)
empty_table == [i \in 0 .. 7 |-> -1]

RECURSIVE set_probe(_, _, _, _)
set_probe(table, key, i, perturb) ==
    IF table[i] < 0 THEN [table EXCEPT ![i] = key]
    ELSE IF table[i] = key THEN table
    ELSE LET pt == perturb \div 32
         IN  set_probe(table, key, (i * 5 + 1 + pt) % 8, pt)

set_add(table, key) == set_probe(table, key, key % 8, key)

set_contains(table, key) == \E i \in DOMAIN table : table[i] = key

RECURSIVE set_update(_, _)
set_update(table, xs) ==
    IF xs = <<>> THEN table ELSE set_update(set_add(table, Head(xs)), Tail(xs))

\* set(xs)
py_set(xs) == set_update(empty_table, xs)

RECURSIVE table_items(_, _)
table_items(table, i) ==
    IF i = 8 THEN <<>>
    ELSE (IF table[i] < 0 THEN <<>> ELSE <<table[i]>>) \o table_items(table, i + 1)

\* list(s)
py_list(table) == table_items(table, 0)

RECURSIVE filter_in(_, _, _)
filter_in(acc, xs, table) ==
    IF xs = <<>> THEN acc
    ELSE filter_in(IF set_contains(table, Head(xs)) THEN set_add(acc, Head(xs)) ELSE acc,
                   Tail(xs), table)

\* s.intersection(xs), xs a list: the keys of xs found in s, added in xs's order
set_intersection(table, xs) == filter_in(empty_table, xs, table)

RECURSIVE filter_out(_, _, _)
filter_out(acc, xs, table) ==
    IF xs = <<>> THEN acc
    ELSE filter_out(IF set_contains(table, Head(xs)) THEN acc ELSE set_add(acc, Head(xs)),
                    Tail(xs), table)

\* s - t: the keys of s not in t, added in s's slot order
set_difference(s, t) == filter_out(empty_table, py_list(s), t)


(***************************************************************************)
(* Sketch values: a function from bucket ids to bucket dicts (records).    *)
(***************************************************************************)
empty_hllset == <<>>

\* doc_id and z swapped between the two appends
add_token_swapped(hllset, token, doc_id, p) ==
    LET hash_val == hash_function(token)
        b == bucket_of(hash_val, p)
        z == count_trailing_zeros(hash_val)
        old == IF b \in DOMAIN hllset THEN hllset[b]
               ELSE [zeros |-> <<>>, frequencies |-> <<>>, documents |-> <<>>]
    IN  [x \in DOMAIN hllset \cup {b} |->
            IF x = b
            THEN [zeros |-> Append(old.zeros, doc_id),
                  frequencies |-> Append(old.frequencies, 1),
                  documents |-> Append(old.documents, z)]
            ELSE hllset[x]]

\* hllset[b]["zeros"] = [z] in place of .append(z)
add_token_overwrite(hllset, token, doc_id, p) ==
    LET hash_val == hash_function(token)
        b == bucket_of(hash_val, p)
        z == count_trailing_zeros(hash_val)
        old == IF b \in DOMAIN hllset THEN hllset[b]
               ELSE [zeros |-> <<>>, frequencies |-> <<>>, documents |-> <<>>]
    IN  [x \in DOMAIN hllset \cup {b} |->
            IF x = b
            THEN [zeros |-> <<z>>,
                  frequencies |-> Append(old.frequencies, 1),
                  documents |-> Append(old.documents, doc_id)]
            ELSE hllset[x]]

\* lines 110-115: the loop body of ingest_dataset for one token
add_token(hllset, token, doc_id, p) ==
    LET hash_val == hash_function(token)
        b == bucket_of(hash_val, p)
        z == count_trailing_zeros(hash_val)
        old == IF b \in DOMAIN hllset THEN hllset[b]
               ELSE [zeros |-> <<>>, frequencies |-> <<>>, documents |-> <<>>]
    IN  [x \in DOMAIN hllset \cup {b} |->
            IF x = b
            THEN [zeros |-> Append(old.zeros, z),
                  frequencies |-> Append(old.frequencies, 1),
                  documents |-> Append(old.documents, doc_id)]
            ELSE hllset[x]]

RECURSIVE ingest_tokens(_, _, _, _)
ingest_tokens(hllset, tokens, doc_id, p) ==
    IF tokens = <<>> THEN hllset
    ELSE ingest_tokens(add_token(hllset, Head(tokens), doc_id, p), Tail(tokens), doc_id, p)

RECURSIVE ingest_documents(_, _, _, _)
ingest_documents(hllset, documents, doc_id, p) ==
    IF documents = <<>> THEN hllset
    ELSE ingest_documents(ingest_tokens(hllset, Head(documents), doc_id, p),
                          Tail(documents), doc_id + 1, p)

\* a document is the list of its tokens (tokenize is not part of the notebook)
ingest_dataset(documents, p) == ingest_documents(empty_hllset, documents, 0, p)

\* hllset.get(b, {"zeros": []})["zeros"]
get_zeros(hllset, b) == IF b \in DOMAIN hllset THEN hllset[b].zeros ELSE <<>>

\* zeros1 or zeros2 in place of zeros1 + zeros2
union_bucket_first(hllset1, hllset2, b) ==
    [zeros |-> py_list(py_set(IF get_zeros(hllset1, b) # <<>> THEN get_zeros(hllset1, b)
                              ELSE get_zeros(hllset2, b)))]

union_bucket(hllset1, hllset2, b) ==
    [zeros |-> py_list(py_set(get_zeros(hllset1, b) \o get_zeros(hllset2, b)))]

\* the keys intersected in place of united
union_common_keys(hllset1, hllset2) ==
    [b \in DOMAIN hllset1 \cap DOMAIN hllset2 |-> union_bucket(hllset1, hllset2, b)]

union(hllset1, hllset2) ==
    [b \in DOMAIN hllset1 \cup DOMAIN hllset2 |-> union_bucket(hllset1, hllset2, b)]

\* set(zeros1).union(zeros2) in place of .intersection(zeros2)
common_zeros_united(hllset1, hllset2, b) ==
    py_list(py_set(hllset1[b].zeros \o hllset2[b].zeros))

common_zeros(hllset1, hllset2, b) ==
    py_list(set_intersection(py_set(hllset1[b].zeros), hllset2[b].zeros))

\* without the test `if common_zeros`
intersection_unchecked(hllset1, hllset2) ==
    [b \in DOMAIN hllset1 \cap DOMAIN hllset2 |->
        [zeros |-> common_zeros(hllset1, hllset2, b)]]

\* `if common_zeros` true for every bucket once one bucket had common zeros
intersection_any_common(hllset1, hllset2) ==
    LET shared == DOMAIN hllset1 \cap DOMAIN hllset2
        keep == IF \E b \in shared : common_zeros(hllset1, hllset2, b) # <<>>
                THEN shared ELSE {}
    IN  [b \in keep |-> [zeros |-> common_zeros(hllset1, hllset2, b)]]

intersection(hllset1, hllset2) ==
    LET keep == {b \in DOMAIN hllset1 \cap DOMAIN hllset2 :
                    common_zeros(hllset1, hllset2, b) # <<>>}
    IN  [b \in keep |-> [zeros |-> common_zeros(hllset1, hllset2, b)]]

\* set(zeros2) - set(zeros1)
unique_zeros_reversed(hllset1, hllset2, b) ==
    py_list(set_difference(py_set(hllset2[b].zeros), py_set(hllset1[b].zeros)))

unique_zeros(hllset1, hllset2, b) ==
    py_list(set_difference(py_set(hllset1[b].zeros), py_set(hllset2[b].zeros)))

\* the buckets of hllset1 that complement hands over as they are (line 197)
passed_through(hllset1, hllset2) == DOMAIN hllset1 \ DOMAIN hllset2

\* without the test `if unique_zeros`
complement_unchecked(hllset1, hllset2) ==
    [b \in DOMAIN hllset1 |->
        IF b \in passed_through(hllset1, hllset2) THEN hllset1[b]
        ELSE [zeros |-> unique_zeros(hllset1, hllset2, b)]]

\* without the branch `if b not in hllset2`
complement_shared_only(hllset1, hllset2) ==
    LET keep == {b \in DOMAIN hllset1 \cap DOMAIN hllset2 :
                    unique_zeros(hllset1, hllset2, b) # <<>>}
    IN  [b \in keep |-> [zeros |-> unique_zeros(hllset1, hllset2, b)]]

complement(hllset1, hllset2) ==
    LET keep == {b \in DOMAIN hllset1 :
                    \/ b \in passed_through(hllset1, hllset2)
                    \/ unique_zeros(hllset1, hllset2, b) # <<>>}
    IN  [b \in keep |->
            IF b \in passed_through(hllset1, hllset2) THEN hllset1[b]
            ELSE [zeros |-> unique_zeros(hllset1, hllset2, b)]]

difference(hllset1, hllset2) == complement(hllset1, hllset2)

\* len(d) of a dict: the number of its keys
len(hllset) == Cardinality(DOMAIN hllset)

RECURSIVE gcd(_, _)
gcd(m, n) == IF n = 0 THEN m ELSE gcd(n, m % n)

\* n / d of two small ints, d > 0: the float is the same for the same ratio
\* and for no other, so it is kept as the fraction in lowest terms
true_div(n, d) == <<n \div gcd(n, d), d \div gcd(n, d)>>

\* the literal 0 of `else 0` (0 == 0.0 in Python)
zero == true_div(0, 1)

\* union_size = len(hllset1) in place of len(union(hllset1, hllset2))
jaccard_over_first(hllset1, hllset2) ==
    LET intersection_size == len(intersection(hllset1, hllset2))
        union_size == len(hllset1)
    IN  IF union_size > 0 THEN true_div(intersection_size, union_size) ELSE zero

jaccard_similarity(hllset1, hllset2) ==
    LET intersection_size == len(intersection(hllset1, hllset2))
        union_size == len(union(hllset1, hllset2))
    IN  IF union_size > 0 THEN true_div(intersection_size, union_size) ELSE zero

(***************************************************************************)
(* Objects.  deref reads a sketch's content through the heap; a call       *)
(* returns the heap after it and the references of its result.             *)
(***************************************************************************)
deref(h, s) == [b \in DOMAIN s |-> h[s[b]]]

rank(b, ids) == Cardinality({x \in ids : x < b})

\* new bucket objects for the buckets of vals, one each
alloc(h, vals) ==
    LET ids == DOMAIN vals
        at(k) == CHOOSE b \in ids : rank(b, ids) = k - 1
    IN  [heap |-> h \o [k \in 1 .. Cardinality(ids) |-> vals[at(k)]],
         refs |-> [b \in ids |-> Len(h) + rank(b, ids) + 1]]

ingest_call(h, documents, p) == alloc(h, ingest_dataset(documents, p))

\* zeros1 += zeros2: the first operand's lists grow in place
union_call_in_place(h, s1, s2) ==
    LET grown(a) ==
            LET bs == {b \in DOMAIN s1 : s1[b] = a}
            IN  IF bs = {} THEN h[a]
                ELSE [h[a] EXCEPT !.zeros =
                         @ \o get_zeros(deref(h, s2), CHOOSE b \in bs : TRUE)]
        h1 == [a \in DOMAIN h |-> grown(a)]
    IN  alloc(h1, union(deref(h1, s1), deref(h1, s2)))

union_call(h, s1, s2) == alloc(h, union(deref(h, s1), deref(h, s2)))

intersection_call(h, s1, s2) == alloc(h, intersection(deref(h, s1), deref(h, s2)))

\* result[b] = hllset1[b] stores the operand's bucket object itself
complement_call(h, s1, s2) ==
    LET v == complement(deref(h, s1), deref(h, s2))
        shared == DOMAIN v \cap passed_through(s1, s2)
        made == alloc(h, [b \in DOMAIN v \ shared |-> v[b]])
    IN  [heap |-> made.heap,
         refs |-> [b \in DOMAIN v |-> IF b \in shared THEN s1[b] ELSE made.refs[b]]]

difference_call(h, s1, s2) == complement_call(h, s1, s2)

\* hllset[b]["zeros"].append(z) on a bucket of an existing sketch (line 113)
append_zero(h, s, b, z) == [h EXCEPT ![s[b]].zeros = Append(@, z)]

(***************************************************************************)
(* Inputs.                                                                 *)
(***************************************************************************)
\* documents of 1 .. n tokens
token_lists(n) == UNION {[1 .. k -> Tokens] : k \in 1 .. n}

\* datasets of at most n tokens, every document with a token in it
RECURSIVE Datasets(_)
Datasets(n) ==
    {<<>>} \cup UNION {{<<t>> \o rest : rest \in Datasets(n - Len(t))} :
                        t \in token_lists(n)}

RECURSIVE token_count(_)
token_count(documents) ==
    IF documents = <<>> THEN 0 ELSE Len(Head(documents)) + token_count(Tail(documents))

\* the run length a caller appends to a bucket of a sketch it holds
AppendedRunLengths == {count_trailing_zeros(hash_function("b"))}

\* the datasets a call of ingest_dataset is followed on
CallDatasets == Datasets(MaxTokens)

AlgebraOps == {"union", "intersection", "complement", "difference"}

contents == [i \in 1 .. Len(sk) |-> deref(heap, sk[i])]

(***************************************************************************)
(* The workspace: the sketches built so far.  conf[i] is the set of        *)
(* precisions p that went into sketch i, origin[i] the operands of the     *)
(* call that returned it; `last` records the latest call, the contents of  *)
(* all sketches before it and its outcome.                                 *)
(***************************************************************************)
\* no call is being followed step by step
no_call == [pc |-> "idle"]

Init ==
    /\ heap = <<>>
    /\ sk = <<>>
    /\ conf = <<>>
    /\ origin = <<>>
    /\ last = [op |-> "none", a |-> 0, b |-> 0, r |-> 0, before |-> <<>>, outcome |-> "ok"]
    /\ ntok = 0
    /\ loop = no_call
    /\ job = no_call

Ingest(documents, p) ==
    /\ Len(sk) < MaxSketches
    /\ LET c == ingest_call(heap, documents, p)
       IN  /\ heap' = c.heap
           /\ sk' = Append(sk, c.refs)
    /\ conf' = Append(conf, {p})
    /\ origin' = Append(origin, {})
    /\ last' = [op |-> "ingest", a |-> 0, b |-> 0, r |-> Len(sk) + 1,
                before |-> contents, outcome |-> "ok"]
    /\ ntok' = ntok + token_count(documents)
    /\ UNCHANGED <<loop, job>>

Algebra(op, c, i, j) ==
    /\ Len(sk) < MaxSketches
    /\ heap' = c.heap
    /\ sk' = Append(sk, c.refs)
    /\ conf' = Append(conf, conf[i] \cup conf[j])
    /\ origin' = Append(origin, {i, j})
    /\ last' = [op |-> op, a |-> i, b |-> j, r |-> Len(sk) + 1,
                before |-> contents, outcome |-> "ok"]
    /\ UNCHANGED <<ntok, loop, job>>

Union(i, j) == Algebra("union", union_call(heap, sk[i], sk[j]), i, j)

Intersection(i, j) == Algebra("intersection", intersection_call(heap, sk[i], sk[j]), i, j)

Complement(i, j) == Algebra("complement", complement_call(heap, sk[i], sk[j]), i, j)

Difference(i, j) == Algebra("difference", difference_call(heap, sk[i], sk[j]), i, j)

AddRunLength(i, b, z) ==
    /\ ntok < MaxTokens
    /\ b \in DOMAIN sk[i]
    /\ heap' = append_zero(heap, sk[i], b, z)
    /\ last' = [op |-> "add", a |-> i, b |-> b, r |-> i,
                before |-> contents, outcome |-> "ok"]
    /\ ntok' = ntok + 1
    /\ UNCHANGED <<sk, conf, origin, loop, job>>

\* a query: builds no sketch, its value is kept with the record of the call
Jaccard(i, j) ==
    /\ last' = [op |-> "jaccard", a |-> i, b |-> j, r |-> 0, before |-> contents,
                outcome |-> "ok",
                value |-> jaccard_similarity(deref(heap, sk[i]), deref(heap, sk[j]))]
    /\ UNCHANGED <<heap, sk, conf, origin, ntok, loop, job>>

Next ==
    \/ \E p \in PValues : \E documents \in Datasets(MaxTokens - ntok) : Ingest(documents, p)
    \/ \E i, j \in 1 .. Len(sk) : Union(i, j)
    \/ \E i, j \in 1 .. Len(sk) : Intersection(i, j)
    \/ \E i, j \in 1 .. Len(sk) : Complement(i, j)
    \/ \E i, j \in 1 .. Len(sk) : Difference(i, j)
    \/ \E i \in 1 .. Len(sk) : \E b \in DOMAIN sk[i] : \E z \in AppendedRunLengths :
          AddRunLength(i, b, z)

Spec == Init /\ [][Next]_vars

(***************************************************************************)
(* The search of the notebook: sketches are ingested and combined, and     *)
(* pairs of them are compared with jaccard_similarity.                     *)
(***************************************************************************)
NextSearch ==
    \/ \E p \in PValues : \E documents \in Datasets(MaxSearchTokens - ntok) :
          Ingest(documents, p)
    \/ \E i, j \in 1 .. Len(sk) : Union(i, j)
    \/ \E i, j \in 1 .. Len(sk) : Intersection(i, j)
    \/ \E i, j \in 1 .. Len(sk) : Complement(i, j)
    \/ \E i, j \in 1 .. Len(sk) : Difference(i, j)
    \/ \E i, j \in 1 .. Len(sk) : Jaccard(i, j)

SpecSearch == Init /\ [][NextSearch]_vars


(***************************************************************************)
(* One call of ingest_dataset, followed iteration by iteration.  `loop` is *)
(* the frame of the call: its arguments, the position of the two for       *)
(* loops, the dict being built, and for the properties the dict before the *)
(* latest iteration, its token, and whether that token was added before.   *)
(* A caller may pass any p; a shift by a negative count raises ValueError. *)
(***************************************************************************)
CallPValues == PValues \cup {-1, 0, WordBits + 1}

\* hash_val >> (64 - p) or 1 << p with a negative shift count
shift_raises(p) == WordBits - p < 0 \/ p < 0

ingest_frame(documents, p) ==
    [pc |-> "for", documents |-> documents, p |-> p, doc_id |-> 0, k |-> 1,
     hllset |-> empty_hllset, outcome |-> "running",
     prev |-> empty_hllset, token |-> "", seen |-> {}, again |-> FALSE]

InitIngest ==
    /\ heap = <<>>
    /\ sk = <<>>
    /\ conf = <<>>
    /\ origin = <<>>
    /\ last = [op |-> "none", a |-> 0, b |-> 0, r |-> 0, before |-> <<>>, outcome |-> "ok"]
    /\ ntok = 0
    /\ loop \in {ingest_frame(documents, p) :
                    documents \in CallDatasets, p \in CallPValues}
    /\ job = no_call

\* lines 105-115: one iteration of the inner loop (every document has a token)
IngestToken ==
    /\ loop.pc = "for"
    /\ loop.doc_id < Len(loop.documents)
    /\ ~shift_raises(loop.p)
    /\ LET tokens == loop.documents[loop.doc_id + 1]
           token == tokens[loop.k]
           done == loop.k = Len(tokens)
       IN  loop' = [loop EXCEPT
                       !.hllset = add_token(loop.hllset, token, loop.doc_id, loop.p),
                       !.k = IF done THEN 1 ELSE loop.k + 1,
                       !.doc_id = IF done THEN loop.doc_id + 1 ELSE loop.doc_id,
                       !.prev = loop.hllset,
                       !.token = token,
                       !.seen = loop.seen \cup {token},
                       !.again = token \in loop.seen]
    /\ UNCHANGED <<heap, sk, conf, origin, last, ntok, job>>

\* line 107 with a negative shift count
IngestRaise ==
    /\ loop.pc = "for"
    /\ loop.doc_id < Len(loop.documents)
    /\ shift_raises(loop.p)
    /\ loop' = [loop EXCEPT !.pc = "raised", !.outcome = "ValueError"]
    /\ UNCHANGED <<heap, sk, conf, origin, last, ntok, job>>

\* line 117
IngestReturn ==
    /\ loop.pc = "for"
    /\ loop.doc_id = Len(loop.documents)
    /\ loop' = [loop EXCEPT !.pc = "returned", !.outcome = "ok"]
    /\ UNCHANGED <<heap, sk, conf, origin, last, ntok, job>>

NextIngest ==
    \/ IngestToken
    \/ IngestRaise
    \/ IngestReturn

SpecIngest == InitIngest /\ [][NextIngest]_vars

(***************************************************************************)
(* One operation with its buckets shared out among workers ("Since buckets *)
(* are mutually exclusive, all operations can be parallelized").  A worker *)
(* takes a bucket id the operation's loop would visit, any one not taken   *)
(* yet, together with that bucket of each operand, runs the operation on   *)
(* the two buckets alone, and puts what comes out into the result dict.    *)
(* `job` holds the operands, the ids not yet taken, each worker's task,    *)
(* the result so far, the order in which its buckets were put, and        *)
(* whether two workers ever held a task at the same time.                  *)
(***************************************************************************)
Workers == 1 .. MaxWorkers

JobOps == {"union", "intersection", "complement"}

JobSketches == {ingest_dataset(documents, p) :
                   documents \in Datasets(MaxJobTokens), p \in PValues}

\* the operation as the notebook runs it, on whole sketches
apply_op(op, hllset1, hllset2) ==
    CASE op = "union" -> union(hllset1, hllset2)
      [] op = "intersection" -> intersection(hllset1, hllset2)
      [] op = "complement" -> complement(hllset1, hllset2)

\* the bucket ids the operation's for loop visits (lines 141, 167, 195)
job_keys(op, hllset1, hllset2) ==
    CASE op = "union" -> DOMAIN hllset1 \cup DOMAIN hllset2
      [] op = "intersection" -> DOMAIN hllset1 \cap DOMAIN hllset2
      [] op = "complement" -> DOMAIN hllset1

\* bucket b of a sketch and nothing else
only_bucket(hllset, b) == [x \in DOMAIN hllset \cap {b} |-> hllset[x]]

idle == [b |-> -1]

job_frame(op, hllset1, hllset2) ==
    [pc |-> "running", op |-> op, hllset1 |-> hllset1, hllset2 |-> hllset2,
     todo |-> job_keys(op, hllset1, hllset2),
     task |-> [w \in Workers |-> idle],
     result |-> empty_hllset, order |-> <<>>, overlapped |-> FALSE]

InitJob ==
    /\ heap = <<>>
    /\ sk = <<>>
    /\ conf = <<>>
    /\ origin = <<>>
    /\ last = [op |-> "none", a |-> 0, b |-> 0, r |-> 0, before |-> <<>>, outcome |-> "ok"]
    /\ ntok = 0
    /\ loop = no_call
    /\ job \in {job_frame(op, hllset1, hllset2) :
                   op \in JobOps, hllset1 \in JobSketches, hllset2 \in JobSketches}

\* worker w takes bucket b: it is handed the two buckets numbered b
Take(w, b) ==
    /\ job.pc = "running"
    /\ job.task[w] = idle
    /\ b \in job.todo
    /\ job' = [job EXCEPT !.todo = job.todo \ {b},
                          !.overlapped = @ \/ \E v \in Workers : job.task[v] # idle,
                          !.task[w] = [b |-> b,
                                       bucket1 |-> only_bucket(job.hllset1, b),
                                       bucket2 |-> only_bucket(job.hllset2, b)]]
    /\ UNCHANGED <<heap, sk, conf, origin, last, ntok, loop>>

\* worker w runs the loop body on its two buckets and stores result[b], if any
Put(w) ==
    /\ job.pc = "running"
    /\ job.task[w] # idle
    /\ LET t == job.task[w]
           out == apply_op(job.op, t.bucket1, t.bucket2)
       IN  job' = [job EXCEPT
                      !.task[w] = idle,
                      !.result = [x \in DOMAIN job.result \cup DOMAIN out |->
                                     IF x \in DOMAIN out THEN out[x] ELSE job.result[x]],
                      !.order = Append(job.order, t.b)]
    /\ UNCHANGED <<heap, sk, conf, origin, last, ntok, loop>>

\* every bucket was taken and every worker is done: the result is returned
Join ==
    /\ job.pc = "running"
    /\ job.todo = {}
    /\ \A w \in Workers : job.task[w] = idle
    /\ job' = [job EXCEPT !.pc = "joined"]
    /\ UNCHANGED <<heap, sk, conf, origin, last, ntok, loop>>

NextJob ==
    \/ \E w \in Workers : \E b \in job.todo : Take(w, b)
    \/ \E w \in Workers : Put(w)
    \/ Join

SpecJob == InitJob /\ [][NextJob]_vars

(***************************************************************************)
(* Vocabulary of the properties.  After an algebra call, OpA and OpB are   *)
(* the operands as they were when it was made and Res is what it returned. *)
(***************************************************************************)
Range(xs) == {xs[k] : k \in DOMAIN xs}

\* the run lengths recorded in bucket b of a sketch (none when b is absent)
zs(hllset, b) == Range(get_zeros(hllset, b))

\* a sketch as the spec sees it: per bucket, the set of its run lengths
run_length_sets(hllset) == [b \in DOMAIN hllset |-> Range(hllset[b].zeros)]

Sketches == 1 .. Len(sk)

Val(i) == deref(heap, sk[i])

OpA == last.before[last.a]

OpB == last.before[last.b]

Res == deref(heap, sk[last.r])

Called(ops) == last.op \in ops

\* no (bucket, run length) pair occurs in both
Disjoint(h1, h2) == \A b \in DOMAIN h1 \cap DOMAIN h2 : zs(h1, b) \cap zs(h2, b) = {}

HasRepeats(hllset) ==
    \E b \in DOMAIN hllset : Len(hllset[b].zeros) > Cardinality(Range(hllset[b].zeros))

HasMetadata(hllset) ==
    \E b \in DOMAIN hllset : "documents" \in DOMAIN hllset[b]

\* C1: union, intersection and complement (difference) return a new sketch
\* and leave their operands, as every sketch that existed before the call,
\* with the contents they had before it.
C1_OperandsUnmodified ==
    Called(AlgebraOps) =>
        /\ last.r = Len(last.before) + 1
        /\ last.r = Len(sk)
        /\ \A i \in 1 .. Len(last.before) : deref(heap, sk[i]) = last.before[i]

C1_Witness ==
    /\ Called(AlgebraOps)
    /\ last.a # last.b
    /\ DOMAIN OpA \cap DOMAIN OpB # {}
    /\ Res # empty_hllset

\* C2: after a run length is appended to a bucket of a sketch, every sketch
\* it was computed from, and every sketch computed from it, has the contents
\* it had before the append (result and operands share no storage).
C2_NoAliasing ==
    Called({"add"}) =>
        \A j \in Sketches \ {last.a} :
            (j \in origin[last.a] \/ last.a \in origin[j]) =>
                deref(heap, sk[j]) = last.before[j]

\* C3: an algebra operation on operands that differ in precision p fails
\* with IncompatibleSketch and yields no result.
C3_IncompatibleRejected ==
    (Called(AlgebraOps) /\ conf[last.a] # conf[last.b]) =>
        /\ last.outcome = "IncompatibleSketch"
        /\ Len(sk) = Len(last.before)

\* C4: union is the per-bucket OR of the operands' run-length sets, and as
\* such commutative and associative: union(A, B) holds the run lengths of
\* union(B, A), and union(union(A, B), C) those of union(A, union(B, C)).
UnionAssoc(A, B, C) ==
    run_length_sets(union(union(A, B), C)) = run_length_sets(union(A, union(B, C)))

IntersectionAssoc(A, B, C) ==
    run_length_sets(intersection(intersection(A, B), C)) =
    run_length_sets(intersection(A, intersection(B, C)))

C6_UnionEmptyIsA ==
    /\ (Called({"union"}) /\ OpB = empty_hllset) => Res = OpA
    /\ (Called({"union"}) /\ OpA = empty_hllset) => Res = OpB

\* C6 as amended: union(A, empty) and union(empty, A) have A's bucket ids
\* and, in each bucket, the set of A's run lengths.
C6_UnionEmptyKeepsRunLengths ==
    /\ (Called({"union"}) /\ OpB = empty_hllset) =>
          run_length_sets(Res) = run_length_sets(OpA)
    /\ (Called({"union"}) /\ OpA = empty_hllset) =>
          run_length_sets(Res) = run_length_sets(OpB)

C6_Witness ==
    /\ Called({"union"})
    /\ OpB = empty_hllset
    /\ HasRepeats(OpA)
    /\ HasMetadata(OpA)
    /\ Res # OpA

\* C7: complement(A, A) and difference(A, A) are the empty sketch.
C7_ComplementSelfEmpty ==
    (Called({"complement", "difference"}) /\ last.a = last.b) =>
        /\ DOMAIN sk[last.r] = {}
        /\ Res = empty_hllset

C7_Witness ==
    /\ Called({"difference"})
    /\ last.a = last.b
    /\ Cardinality(DOMAIN OpA) > 1

\* C8 as claimed: for disjoint A and B, complement(A, B) is equal to A.
C8_ComplementDisjointIsA ==
    (Called({"complement"}) /\ Disjoint(OpA, OpB)) => Res = OpA

\* C8 as amended: for disjoint A and B, complement(A, B) has A's bucket ids
\* and, in each bucket, the set of A's run lengths; it is equal to A when A
\* and B populate no common bucket id.
C8_ComplementDisjointKeepsRunLengths ==
    (Called({"complement"}) /\ Disjoint(OpA, OpB)) =>
        /\ run_length_sets(Res) = run_length_sets(OpA)
        /\ DOMAIN OpA \cap DOMAIN OpB = {} => Res = OpA

C8_Witness ==
    /\ Called({"complement"})
    /\ Disjoint(OpA, OpB)
    /\ DOMAIN OpA \cap DOMAIN OpB # {}
    /\ Res # OpA

\* C9: a bucket is in intersection(A, B) iff it is in A and in B and the two
\* share a run length; no bucket of the result has an empty zeros list.
C9_IntersectionBuckets ==
    Called({"intersection"}) =>
        /\ DOMAIN sk[last.r] =
              {b \in DOMAIN OpA \cap DOMAIN OpB : zs(OpA, b) \cap zs(OpB, b) # {}}
        /\ \A b \in DOMAIN sk[last.r] : Res[b].zeros # <<>>

C9_Witness ==
    /\ Called({"intersection"})
    /\ DOMAIN sk[last.r] # {}
    /\ \E b \in DOMAIN OpA \cap DOMAIN OpB : b \notin DOMAIN sk[last.r]

\* C10: in complement(A, B) a bucket of A that B lacks has exactly A's
\* content, a bucket in both holds A's run lengths minus B's and is absent
\* when none is left, and no bucket that A lacks is in the result.
C10_ComplementBuckets ==
    Called({"complement", "difference"}) =>
        /\ DOMAIN Res \subseteq DOMAIN OpA
        /\ \A b \in DOMAIN OpA \ DOMAIN OpB : b \in DOMAIN Res /\ Res[b] = OpA[b]
        /\ \A b \in DOMAIN OpA \cap DOMAIN OpB :
              IF zs(OpA, b) \ zs(OpB, b) = {} THEN b \notin DOMAIN Res
              ELSE b \in DOMAIN Res /\ Range(Res[b].zeros) = zs(OpA, b) \ zs(OpB, b)

C10_Witness ==
    /\ Called({"complement"})
    /\ DOMAIN OpA \ DOMAIN OpB # {}
    /\ DOMAIN OpB \ DOMAIN OpA # {}
    /\ \E b \in DOMAIN OpA \cap DOMAIN OpB : b \in DOMAIN Res /\ Res[b] # OpA[b]

\* the distinct (bucket, run length) pairs a sketch records
count(hllset) ==
    Cardinality(UNION {{<<b, z>> : z \in Range(hllset[b].zeros)} : b \in DOMAIN hllset})

\* C11: jaccard(A, B) is the count of distinct elements of intersection(A, B)
\* divided by that of union(A, B) (a count of elements, not of populated
\* buckets), and is 0 when the union counts 0, as for two empty sketches.
C11_JaccardOfCounts ==
    Called({"jaccard"}) =>
        last.value = IF count(union(OpA, OpB)) = 0 THEN zero
                     ELSE true_div(count(intersection(OpA, OpB)), count(union(OpA, OpB)))

\* Vocabulary of the ingestion properties: after an iteration, Added holds,
\* loop.token is the item added, loop.prev the sketch before the add.
Added == loop.pc \in {"for", "returned"} /\ loop.token # ""

AddedBucket == bucket_of(hash_function(loop.token), loop.p)

AddedRunLength == count_trailing_zeros(hash_function(loop.token))

\* the top p bits of a 64-bit value, as a number
top_bits(hash_val, p) ==
    bits_value({i - (WordBits - p) : i \in {x \in hash_val : x >= WordBits - p}})

occurrences(xs, x) == Cardinality({k \in DOMAIN xs : xs[k] = x})

\* per bucket, how many times each run length is recorded
run_length_bags(hllset) ==
    [b \in DOMAIN hllset |->
        [z \in Range(hllset[b].zeros) |-> occurrences(hllset[b].zeros, z)]]

RECURSIVE flatten(_)
flatten(documents) ==
    IF documents = <<>> THEN <<>> ELSE Head(documents) \o flatten(Tail(documents))

\* the tokens xs laid out in documents of the lengths of `documents`
RECURSIVE layout(_, _)
layout(xs, documents) ==
    IF documents = <<>> THEN <<>>
    ELSE <<SubSeq(xs, 1, Len(Head(documents)))>> \o
         layout(SubSeq(xs, Len(Head(documents)) + 1, Len(xs)), Tail(documents))

\* the datasets that hold the items of `documents` in every order
Reorderings(documents) ==
    LET xs == flatten(documents)
    IN  {layout([k \in DOMAIN xs |-> xs[f[k]]], documents) :
            f \in Permutations(DOMAIN xs)}

\* any precision for which a 64-bit hash has "top p bits"
SupportedPrecisions == 0 .. WordBits

\* C12 as claimed: adding an item that was added before leaves the sketch
\* exactly as it was.
C12_AddIdempotent ==
    (Added /\ loop.again) => loop.hllset = loop.prev

\* C12 as amended: adding an item that was added before leaves the bucket
\* ids and every bucket's set of run lengths as they were; the item's bucket
\* gains one entry in its zeros list.
C12_AddAgainKeepsRunLengths ==
    (Added /\ loop.again) =>
        /\ run_length_sets(loop.hllset) = run_length_sets(loop.prev)
        /\ Len(loop.hllset[AddedBucket].zeros) = Len(loop.prev[AddedBucket].zeros) + 1

C12_Witness ==
    /\ Added
    /\ loop.again
    /\ loop.doc_id > 0
    /\ Cardinality(zs(loop.prev, AddedBucket)) > 1
    /\ loop.hllset # loop.prev

\* C13 as claimed: a sketch built from the same items with the same p in
\* another order has identical bucket contents.
C13_OrderIndependent ==
    loop.pc = "returned" =>
        \A documents \in Reorderings(loop.documents) :
            ingest_dataset(documents, loop.p) = loop.hllset

\* C13 as amended: a sketch built from the same items with the same p in
\* another order has the same bucket ids and, in every bucket, the same run
\* lengths, each recorded as many times.
C13_OrderKeepsRunLengths ==
    loop.pc = "returned" =>
        \A documents \in Reorderings(loop.documents) :
            run_length_bags(ingest_dataset(documents, loop.p)) =
            run_length_bags(loop.hllset)

C13_Witness ==
    /\ loop.pc = "returned"
    /\ Cardinality(DOMAIN loop.hllset) > 1
    /\ Len(loop.documents) > 1
    /\ \E documents \in Reorderings(loop.documents) :
          /\ ingest_dataset(documents, loop.p) # loop.hllset
          /\ run_length_sets(ingest_dataset(documents, loop.p)) =
             run_length_sets(loop.hllset)

\* C14: an add changes one bucket, the one numbered by the top p bits of the
\* item's hash, a number in 0 .. 2^p - 1: that bucket gains one entry, the
\* item's run length, every other bucket is as before, and no run length
\* recorded before is missing after.
C14_AddOneBucket ==
    Added =>
        LET b == top_bits(hash_function(loop.token), loop.p)
        IN  /\ b \in 0 .. pow2(loop.p) - 1
            /\ DOMAIN loop.hllset = DOMAIN loop.prev \cup {b}
            /\ \A x \in DOMAIN loop.prev \ {b} : loop.hllset[x] = loop.prev[x]
            /\ Len(loop.hllset[b].zeros) = Len(get_zeros(loop.prev, b)) + 1
            /\ zs(loop.hllset, b) = zs(loop.prev, b) \cup {AddedRunLength}
            /\ \A x \in DOMAIN loop.prev :
                  SubSeq(loop.hllset[x].zeros, 1, Len(loop.prev[x].zeros)) =
                  loop.prev[x].zeros

C14_Witness ==
    /\ Added
    /\ AddedBucket \in DOMAIN loop.prev
    /\ DOMAIN loop.prev # {AddedBucket}
    /\ AddedRunLength \notin zs(loop.prev, AddedBucket)

\* C15: ingest_dataset with a precision outside the supported range fails
\* with InvalidPrecision and returns no sketch; with a precision inside it
\* the call succeeds.
C15_PrecisionChecked ==
    loop.pc \in {"returned", "raised"} =>
        IF loop.p \in SupportedPrecisions THEN loop.outcome = "ok"
        ELSE loop.outcome = "InvalidPrecision"

\* C16: with the buckets of union, intersection or complement computed by
\* workers in any order and interleaving, each from the two same-numbered
\* buckets of the operands alone, every bucket put into the result is the
\* bucket of the sequential operation, and the assembled result is the
\* result of the sequential operation.
C16_BucketLocal ==
    LET sequential == apply_op(job.op, job.hllset1, job.hllset2)
    IN  /\ job.pc \in {"running", "joined"} =>
              /\ DOMAIN job.result \subseteq DOMAIN sequential
              /\ \A b \in DOMAIN job.result : job.result[b] = sequential[b]
        /\ job.pc = "joined" => job.result = sequential

C16_Witness ==
    /\ job.pc = "joined"
    /\ job.overlapped
    /\ \E k \in 1 .. Len(job.order) - 1 : job.order[k] > job.order[k + 1]
    /\ \E b \in Range(job.order) : b \notin DOMAIN job.result
    /\ job.result # empty_hllset

\* C17: every bucket present in a sketch built by ingest_dataset, union,
\* intersection, complement or difference holds at least one run length.
C17_NoEmptyBuckets ==
    \A i \in Sketches : \A b \in DOMAIN sk[i] : Val(i)[b].zeros # <<>>

C17_Witness ==
    /\ Called({"complement", "difference"})
    /\ origin[last.a] # {}
    /\ DOMAIN sk[last.r] # {}
    /\ \E b \in DOMAIN OpA \cap DOMAIN OpB : b \notin DOMAIN sk[last.r]

\* C18: jaccard_similarity(A, B) lies in [0, 1], equals
\* jaccard_similarity(B, A), and jaccard_similarity(A, A) is 1 for every
\* non-empty A, for the sketches that ingestion and the algebra build.
C18_JaccardRangeSymmetric ==
    Called({"jaccard"}) =>
        /\ 0 <= last.value[1]
        /\ last.value[1] <= last.value[2]
        /\ last.value[2] > 0
        /\ last.value = jaccard_similarity(OpB, OpA)
        /\ (last.a = last.b /\ OpA # empty_hllset) => last.value = true_div(1, 1)

C18_Witness ==
    /\ Called({"jaccard"})
    /\ last.a # last.b
    /\ origin[last.a] # {}
    /\ DOMAIN OpA # DOMAIN OpB
    /\ 0 < last.value[1]
    /\ last.value[1] < last.value[2]

=============================================================================
